---- MODULE Spec2Model ----
(***************************************************************************)
(* Model of the retrieval-fusion core of the heritage question-answering   *)
(* service: rag_engine.py (Neo4jKnowledgeGraph, VectorRetriever,           *)
(* ICHRAGEngine) and the parts of app.py that construct and query it.      *)
(*                                                                         *)
(* Text is a sequence of Unicode code points, so that Python's substring   *)
(* test, slicing, f-string formatting and str.join are computed on the     *)
(* characters the program sees.  Python's None is the record None; every   *)
(* nullable attribute holds either None or a record.                       *)
(***************************************************************************)
EXTENDS Integers, Sequences, FiniteSets, TLC

VARIABLES
    kg,          \* app.py global kg: None or a Neo4jKnowledgeGraph
    rag_engine,  \* app.py global rag_engine: None or an ICHRAGEngine
    connect,     \* what the adapters' construction met in the store
    last,        \* the operation called last and how it ended
    query,       \* the query string handed to _extract_query_intent
    intent,      \* what that call returned, None before the call
    libs,        \* which of sentence_transformers and faiss can be imported
    retriever,   \* a VectorRetriever of its own (build_vector_index.py)
    reloaded,    \* a later VectorRetriever(index_path) over the same directory
    disk,        \* the index directory: None, or its two files
    build,       \* the build_index call in flight and its position, or None
    builds,      \* how many build_index calls were started
    csv,         \* the rows of the CSV file batch_generate_introductions reads
    output       \* the JSON file it loads and saves: None while absent

retriever_vars == <<retriever, reloaded, disk, build, builds>>

batch_vars == <<csv, output>>

vars == <<kg, rag_engine, connect, last, query, intent, libs,
          retriever, reloaded, disk, build, builds, csv, output>>

None == [none |-> TRUE]

Driver == [driver |-> TRUE]

Model == [model |-> TRUE]

Returned(v) == [status |-> "returned", value |-> v]

Raised(e) == [status |-> "raised", exc |-> e]

Range(s) == {s[i] : i \in 1..Len(s)}

Min(a, b) == IF a < b THEN a ELSE b

\* Python's seq[:n] for n >= 0.
Take(s, n) == SubSeq(s, 1, Min(n, Len(s)))

(***************************************************************************)
(* ICHRAGEngine.__init__: self.category_keywords, in insertion order.      *)
(***************************************************************************)
category_keywords ==
    << \* 民间文学: 传说 故事 歌谣 史诗 神话 谚语 童谣
       [category |-> <<27665, 38388, 25991, 23398>>,
        keywords |-> <<<<20256, 35828>>,
                      <<25925, 20107>>,
                      <<27468, 35875>>,
                      <<21490, 35799>>,
                      <<31070, 35805>>,
                      <<35866, 35821>>,
                      <<31461, 35875>>>>],
       \* 传统音乐: 音乐 民歌 号子 曲艺 器乐 古琴 唢呐
       [category |-> <<20256, 32479, 38899, 20048>>,
        keywords |-> <<<<38899, 20048>>,
                      <<27665, 27468>>,
                      <<21495, 23376>>,
                      <<26354, 33402>>,
                      <<22120, 20048>>,
                      <<21476, 29748>>,
                      <<21794, 21584>>>>],
       \* 传统舞蹈: 舞蹈 龙舞 狮舞 秧歌 傩舞 花鼓
       [category |-> <<20256, 32479, 33310, 36424>>,
        keywords |-> <<<<33310, 36424>>,
                      <<40857, 33310>>,
                      <<29422, 33310>>,
                      <<31207, 27468>>,
                      <<20649, 33310>>,
                      <<33457, 40723>>>>],
       \* 传统戏剧: 戏剧 京剧 昆曲 越剧 皮影戏 木偶
       [category |-> <<20256, 32479, 25103, 21095>>,
        keywords |-> <<<<25103, 21095>>,
                      <<20140, 21095>>,
                      <<26118, 26354>>,
                      <<36234, 21095>>,
                      <<30382, 24433, 25103>>,
                      <<26408, 20598>>>>],
       \* 曲艺: 曲艺 相声 评书 大鼓 快板
       [category |-> <<26354, 33402>>,
        keywords |-> <<<<26354, 33402>>,
                      <<30456, 22768>>,
                      <<35780, 20070>>,
                      <<22823, 40723>>,
                      <<24555, 26495>>>>],
       \* 传统美术: 美术 剪纸 年画 刺绣 雕刻 泥塑
       [category |-> <<20256, 32479, 32654, 26415>>,
        keywords |-> <<<<32654, 26415>>,
                      <<21098, 32440>>,
                      <<24180, 30011>>,
                      <<21050, 32483>>,
                      <<38613, 21051>>,
                      <<27877, 22609>>>>],
       \* 传统技艺: 技艺 织造 酿造 制茶 制瓷 铸造
       [category |-> <<20256, 32479, 25216, 33402>>,
        keywords |-> <<<<25216, 33402>>,
                      <<32455, 36896>>,
                      <<37247, 36896>>,
                      <<21046, 33590>>,
                      <<21046, 29943>>,
                      <<38136, 36896>>>>],
       \* 传统医药: 医药 中医 针灸 推拿 药物
       [category |-> <<20256, 32479, 21307, 33647>>,
        keywords |-> <<<<21307, 33647>>,
                      <<20013, 21307>>,
                      <<38024, 28792>>,
                      <<25512, 25343>>,
                      <<33647, 29289>>>>],
       \* 民俗: 民俗 节日 习俗 祭祀 婚俗
       [category |-> <<27665, 20439>>,
        keywords |-> <<<<27665, 20439>>,
                      <<33410, 26085>>,
                      <<20064, 20439>>,
                      <<31085, 31040>>,
                      <<23130, 20439>>>>] >>

(***************************************************************************)
(* _extract_query_intent: the local list provinces.                        *)
(***************************************************************************)
provinces ==
    << \* 北京 天津 河北 山西
       <<21271, 20140>>, <<22825, 27941>>, <<27827, 21271>>, <<23665, 35199>>,
       \* 内蒙古 辽宁 吉林 黑龙江
       <<20869, 33945, 21476>>, <<36797, 23425>>, <<21513, 26519>>, <<40657, 40857, 27743>>,
       \* 上海 江苏 浙江 安徽
       <<19978, 28023>>, <<27743, 33487>>, <<27993, 27743>>, <<23433, 24509>>,
       \* 福建 江西 山东 河南
       <<31119, 24314>>, <<27743, 35199>>, <<23665, 19996>>, <<27827, 21335>>,
       \* 湖北 湖南 广东 广西
       <<28246, 21271>>, <<28246, 21335>>, <<24191, 19996>>, <<24191, 35199>>,
       \* 海南 重庆 四川 贵州
       <<28023, 21335>>, <<37325, 24198>>, <<22235, 24029>>, <<36149, 24030>>,
       \* 云南 西藏 陕西 甘肃
       <<20113, 21335>>, <<35199, 34255>>, <<38485, 35199>>, <<29976, 32899>>,
       \* 青海 宁夏 新疆
       <<38738, 28023>>, <<23425, 22799>>, <<26032, 30086>> >>

(***************************************************************************)
(* Python's `s in q` for two strings: s occurs in q as a contiguous run.   *)
(***************************************************************************)
Contains(s, q) ==
    \E i \in 0..(Len(q) - Len(s)) : \A j \in 1..Len(s) : q[i + j] = s[j]

\* Mutant of CategoryHit: the keyword loop is lost, only the name is tested.
CategoryHit_NameOnly(entry, q) == Contains(entry.category, q)

\* One iteration of the category loop: `category in query`, then each keyword.
CategoryHit(entry, q) ==
    \/ Contains(entry.category, q)
    \/ \E k \in 1..Len(entry.keywords) : Contains(entry.keywords[k], q)

\* Mutant of CategoryScan: the loop runs to its end and the last hit wins.
RECURSIVE CategoryScan_Last(_, _)
CategoryScan_Last(i, q) ==
    IF i > Len(category_keywords) THEN 0
    ELSE LET later == CategoryScan_Last(i + 1, q) IN
         IF later # 0 THEN later
         ELSE IF CategoryHit(category_keywords[i], q) THEN i
         ELSE 0

\* for category, keywords in self.category_keywords.items(): the first hit
\* returns; 0 when the loop runs to its end.
RECURSIVE CategoryScan(_, _)
CategoryScan(i, q) ==
    IF i > Len(category_keywords) THEN 0
    ELSE IF CategoryHit(category_keywords[i], q) THEN i
    ELSE CategoryScan(i + 1, q)

\* Mutant of ProvinceScan: the list is walked from its end.
RECURSIVE ProvinceScan_Reversed(_, _)
ProvinceScan_Reversed(i, q) ==
    IF i > Len(provinces) THEN 0
    ELSE LET p == Len(provinces) + 1 - i IN
         IF Contains(provinces[p], q) THEN p
         ELSE ProvinceScan_Reversed(i + 1, q)

\* for province in provinces: the first hit returns; 0 when none.
RECURSIVE ProvinceScan(_, _)
ProvinceScan(i, q) ==
    IF i > Len(provinces) THEN 0
    ELSE IF Contains(provinces[i], q) THEN i
    ELSE ProvinceScan(i + 1, q)

\* Mutant of _extract_query_intent: the province loop runs before the
\* category loop.
_extract_query_intent_RegionFirst(q) ==
    LET p == ProvinceScan(1, q) IN
    IF p # 0
    THEN [type |-> "region", keyword |-> provinces[p]]
    ELSE LET c == CategoryScan(1, q) IN
         IF c # 0
         THEN [type |-> "category", keyword |-> category_keywords[c].category]
         ELSE [type |-> "name", keyword |-> q]

\* Mutant of _extract_query_intent: the default is the 'unknown' intent that
\* app.py's degraded chat path builds.
_extract_query_intent_UnknownDefault(q) ==
    LET c == CategoryScan(1, q) IN
    IF c # 0
    THEN [type |-> "category", keyword |-> category_keywords[c].category]
    ELSE LET p == ProvinceScan(1, q) IN
         IF p # 0
         THEN [type |-> "region", keyword |-> provinces[p]]
         ELSE [type |-> "unknown", keyword |-> q]

_extract_query_intent(q) ==
    LET c == CategoryScan(1, q) IN
    IF c # 0
    THEN [type |-> "category", keyword |-> category_keywords[c].category]
    ELSE LET p == ProvinceScan(1, q) IN
         IF p # 0
         THEN [type |-> "region", keyword |-> provinces[p]]
         ELSE [type |-> "name", keyword |-> q]

(***************************************************************************)
(* Neo4jKnowledgeGraph.__init__.  driver_ok: GraphDatabase.driver(...)     *)
(* returned; test_ok: the test query RETURN 1 ran.  Both failures are      *)
(* caught and logged; the attribute is assigned before the test query.     *)
(***************************************************************************)
ConnectOutcomes == {"ok", "driver_failed", "test_failed"}

Neo4jKnowledgeGraph_init(outcome) ==
    Returned([driver |-> IF outcome = "driver_failed" THEN None ELSE Driver])

(***************************************************************************)
(* The documents a persisted index directory can hold, and the retriever.  *)
(***************************************************************************)
MaxDocs == 3

\* 文档1, 文档2, ...: title 文档<i>, content 内容<i>
Document(i) == [title |-> <<25991, 26723, 48 + i>>,
                content |-> <<20869, 23481, 48 + i>>]

Corpus(n) == [i \in 1..n |-> Document(i)]

\* The libraries the retriever imports, each installed or not.
LibStates == [sentence_transformers : BOOLEAN, faiss : BOOLEAN]

\* texts = [f"{d.get('title', '')} {d.get('content', '')}" ...]
TextOf(d) == d.title \o <<32>> \o d.content

\* encode + normalize_L2: the unit vector of a text, named by the text it
\* embeds (equal texts have equal vectors).
Embed(documents) == [i \in 1..Len(documents) |-> [of |-> TextOf(documents[i])]]

\* faiss.IndexFlatIP(dimension): an empty flat index.
IndexFlatIP == [ntotal |-> 0, vectors |-> <<>>]

\* index.add(embeddings): the vectors get the next positional ids.
add(index, embeddings) ==
    [ntotal |-> index.ntotal + Len(embeddings),
     vectors |-> index.vectors \o embeddings]

\* faiss.write_index / faiss.read_index: the flat index as a blob (its
\* fourcc, the vector count, the codes) and back.
write_index(index) ==
    [fourcc |-> "IxFI", n |-> index.ntotal, codes |-> index.vectors]

read_index(blob) == [ntotal |-> blob.n, vectors |-> blob.codes]

\* json.dump(documents, ...) / json.load: a list of objects, each a list of
\* key/value members in the order of the dict, and back.
json_dump(documents) ==
    [i \in 1..Len(documents) |->
       << <<"title", documents[i].title>>, <<"content", documents[i].content>> >>]

\* Mutant of json_load: the list comes back in reverse order.
json_load_Reversed(text) ==
    [i \in 1..Len(text) |->
       [title |-> (CHOOSE m \in Range(text[Len(text) + 1 - i]) : m[1] = "title")[2],
        content |-> (CHOOSE m \in Range(text[Len(text) + 1 - i]) : m[1] = "content")[2]]]

json_load(text) ==
    [i \in 1..Len(text) |->
       [title |-> (CHOOSE m \in Range(text[i]) : m[1] = "title")[2],
        content |-> (CHOOSE m \in Range(text[i]) : m[1] = "content")[2]]]

\* What _load_index finds under index_path: the two files, each present or
\* not, faiss.index holding the vectors of some documents and documents.json
\* some documents.
IndexDirs ==
    {[index_file |-> a, documents_file |-> b,
      blob |-> write_index(add(IndexFlatIP, Embed(Corpus(nt)))),
      json |-> json_dump(Corpus(nd))] :
       a \in BOOLEAN, b \in BOOLEAN, nt \in 0..MaxDocs, nd \in 0..MaxDocs}

\* VectorRetriever._load_index: read_index, then json.load; either raises
\* when its file is missing.
_load_index(self, dir) ==
    IF ~dir.index_file THEN Raised("RuntimeError")
    ELSE IF ~dir.documents_file THEN Raised("FileNotFoundError")
    ELSE Returned([self EXCEPT !.index = read_index(dir.blob),
                               !.documents = json_load(dir.json)])

\* VectorRetriever.__init__: only ImportError is caught; import_ok says
\* that both sentence_transformers and faiss were imported.
VectorRetriever_init(import_ok, path_exists, dir) ==
    LET fresh == [index |-> None, documents |-> <<>>, embeddings_model |-> None]
    IN  IF ~import_ok THEN Returned(fresh)
        ELSE LET loaded == [fresh EXCEPT !.embeddings_model = Model]
             IN  IF path_exists THEN _load_index(loaded, dir)
                 ELSE Returned(loaded)

\* ICHRAGEngine.__init__ (category_keywords is the constant table above).
ICHRAGEngine_init(outcome, import_ok, path_exists, dir) ==
    LET k == Neo4jKnowledgeGraph_init(outcome)
        r == VectorRetriever_init(import_ok, path_exists, dir)
    IN  IF r.status = "raised" THEN r
        ELSE Returned([kg |-> k.value, retriever |-> r.value])

(***************************************************************************)
(* The graph store as the adapter sees it.  A query either raises inside   *)
(* the driver or returns rows; the rows are the first n items of the store *)
(* in the projection of the query that was run.  Dictionary keys: name is  *)
(* 名称, category is 类别, region is 申报地区, org is 保护单位.            *)
(***************************************************************************)
MaxRows == 2

\* 项目<i>, 民俗, 云南, 单位<i>
Item(i) == [name |-> <<39033, 30446, 48 + i>>,
            category |-> <<27665, 20439>>,
            region |-> <<20113, 21335>>,
            org |-> <<21333, 20301, 48 + i>>]

Project(row, keys) == [k \in keys |-> row[k]]

Rows(n, keys) == [i \in 1..n |-> Project(Item(i), keys)]

\* What session.run(...) does once a session exists.
RunOutcomes(keys) ==
    {Raised("Neo4jError")} \cup {Returned(Rows(n, keys)) : n \in 0..MaxRows}

\* `with self.driver.session() as session:` on an adapter: None has no
\* attribute session.
WithSession(self, run) ==
    IF self.driver = None THEN Raised("AttributeError") ELSE run

query_by_name(self, name, run) == WithSession(self, run)

query_by_category(self, category, run) == WithSession(self, run)

query_by_region(self, region, run) == WithSession(self, run)

get_statistics(self, run) == WithSession(self, run)

get_category_distribution(self, run) == WithSession(self, run)

NameKeys == {"name", "category", "region", "org"}

CategoryKeys == {"name", "region"}

RegionKeys == {"name", "category", "region"}

StatKeys == {"total_items", "total_categories", "total_regions", "total_orgs"}

\* The four count aggregates of get_statistics.
StatOutcomes ==
    {Raised("Neo4jError")} \cup {Returned(s) : s \in [StatKeys -> 0..MaxRows]}

\* 类别, 数量 rows ordered by 数量 descending.
DistributionOutcomes ==
    {Raised("Neo4jError")} \cup
    {Returned([i \in 1..n |-> [category |-> category_keywords[i].category,
                               count |-> n - i]]) : n \in 0..MaxRows}

(***************************************************************************)
(* VectorRetriever.search.  The nearest-neighbour index answers a search   *)
(* for top_k with exactly top_k (score, id) pairs: the min(top_k, ntotal)  *)
(* nearest vectors by descending inner product, then padding with id -1.   *)
(* Scores are in hundredths: 51 is 0.51.                                   *)
(***************************************************************************)
ScoreValues == {50, 51}

\* the score faiss reports beside a padding id (-3.4028235e38)
PadScore == -2147483647

IndexSearch(ntotal, top_k) ==
    LET m == Min(ntotal, top_k) IN
    {[i \in 1..top_k |-> IF i <= m THEN [idx |-> ids[i], score |-> sc[i]]
                         ELSE [idx |-> -1, score |-> PadScore]] :
       ids \in {f \in [1..m -> 0..(ntotal - 1)] :
                  \A a, b \in 1..m : a # b => f[a] # f[b]},
       sc \in {g \in [1..m -> ScoreValues] :
                  \A a \in 1..m : a < m => g[a] >= g[a + 1]}}

\* The loop over zip(scores[0], indices[0]): `if idx < len(self.documents)`
\* then self.documents[idx], with Python's indexing of a list by idx.
RECURSIVE Collect(_, _)
Collect(documents, hits) ==
    IF hits = <<>> THEN Returned(<<>>)
    ELSE LET h == Head(hits) IN
         IF h.idx < Len(documents)
         THEN IF h.idx < -Len(documents) THEN Raised("IndexError")
              ELSE LET doc == IF h.idx >= 0 THEN documents[h.idx + 1]
                              ELSE documents[Len(documents) + h.idx + 1]
                       rest == Collect(documents, Tail(hits))
                   IN  IF rest.status = "raised" THEN rest
                       ELSE Returned(<<[doc |-> doc, score |-> h.score]>>
                                     \o rest.value)
         ELSE Collect(documents, Tail(hits))

\* encode: the embedding of the query, or the model raising.
SearchEnvs(self, top_k) ==
    IF self.index = None \/ self.embeddings_model = None THEN {None}
    ELSE {[encode_ok |-> FALSE]} \cup
         {[encode_ok |-> TRUE, hits |-> h] :
            h \in IndexSearch(self.index.ntotal, top_k)}

\* `import faiss` comes first, then the test of index and model.
search(self, q, top_k, env) ==
    IF ~libs.faiss THEN Raised("ImportError")
    ELSE IF self.index = None \/ self.embeddings_model = None THEN Returned(<<>>)
    ELSE IF ~env.encode_ok THEN Raised("RuntimeError")
    ELSE Collect(self.documents, env.hits)

(***************************************************************************)
(* ICHRAGEngine.retrieve, generate_context and answer.                     *)
(***************************************************************************)
TopK == 3

ContextRows == 5

ContentChars == 500

Threshold == 50

RetrieveKeys(type) ==
    IF type = "category" THEN CategoryKeys
    ELSE IF type = "region" THEN RegionKeys ELSE NameKeys

retrieve(self, q, run, senv) ==
    LET i == _extract_query_intent(q)
        kg_results == IF i.type = "category"
                      THEN query_by_category(self.kg, i.keyword, run)
                      ELSE IF i.type = "region"
                      THEN query_by_region(self.kg, i.keyword, run)
                      ELSE query_by_name(self.kg, i.keyword, run)
    IN  IF kg_results.status = "raised" THEN kg_results
        ELSE LET vector_results == search(self.retriever, q, TopK, senv) IN
             IF vector_results.status = "raised" THEN vector_results
             ELSE Returned([intent |-> i,
                            kg_results |-> kg_results.value,
                            vector_results |-> vector_results.value])

\* dict.get(key, default)
Get(d, key, default) == IF key \in DOMAIN d THEN d[key] ELSE default

\* str.join
RECURSIVE Join(_, _)
Join(sep, parts) ==
    IF parts = <<>> THEN <<>>
    ELSE IF Len(parts) = 1 THEN Head(parts)
    ELSE Head(parts) \o sep \o Join(sep, Tail(parts))

\* str(n) for n >= 0
RECURSIVE Str(_)
Str(n) == IF n < 10 THEN <<48 + n>> ELSE Str(n \div 10) \o <<48 + (n % 10)>>

\* "\n"
NL == <<10>>

\* "【知识图谱信息】"
KgHeader == <<12304, 30693, 35782, 22270, 35889, 20449, 24687, 12305>>

\* "\n【相关文档】"
DocsHeader == <<10, 12304, 30456, 20851, 25991, 26723, 12305>>

\* "未知"
Unknown == <<26410, 30693>>

\* f"- {名称}: 类别={类别}，地区={申报地区}"
KgLine(item) ==
    <<45, 32>> \o Get(item, "name", <<>>) \o <<58, 32, 31867, 21035, 61>>
    \o Get(item, "category", Unknown) \o <<65292, 22320, 21306, 61>>
    \o Get(item, "region", Unknown)

\* f"- {title}: {content}..."
DocLine(doc) ==
    <<45, 32>> \o Get(doc, "title", <<>>) \o <<58, 32>>
    \o Take(Get(doc, "content", <<>>), ContentChars) \o <<46, 46, 46>>

generate_context(retrieval) ==
    LET kg_part ==
          IF retrieval.kg_results # <<>>
          THEN <<KgHeader>> \o
               [i \in 1..Min(ContextRows, Len(retrieval.kg_results)) |->
                  KgLine(retrieval.kg_results[i])]
          ELSE <<>>
        above == SelectSeq(retrieval.vector_results,
                           LAMBDA r : r.score > Threshold)
        doc_part ==
          IF retrieval.vector_results # <<>>
          THEN <<DocsHeader>> \o [i \in 1..Len(above) |-> DocLine(above[i].doc)]
          ELSE <<>>
    IN  Join(NL, kg_part \o doc_part)

\* "抱歉，生成回答时出现错误。"
Apology ==
    <<25265, 27465, 65292, 29983, 25104, 22238, 31572, 26102, 20986, 29616,
      38169, 35823, 12290>>

\* f"找到 {len(kg_results)} 个相关非遗项目："
FoundLine(n) ==
    <<25214, 21040, 32>> \o Str(n)
    \o <<32, 20010, 30456, 20851, 38750, 36951, 39033, 30446, 65306>>

\* f"• **{名称}** ({类别})"
ItemLine(item) ==
    <<8226, 32, 42, 42>> \o Get(item, "name", <<>>) \o <<42, 42, 32, 40>>
    \o Get(item, "category", <<>>) \o <<41>>

\* the 5 of retrieval['kg_results'][:5] in answer
SourceRows == 5

\* Mutant of SourcesOf: the names of all graph records, not of the first 5.
SourcesOf_All(kg_results) ==
    [i \in 1..Len(kg_results) |-> Get(kg_results[i], "name", <<>>)]

\* [item.get('名称', '') for item in retrieval['kg_results'][:5]]
SourcesOf(kg_results) ==
    [i \in 1..Min(SourceRows, Len(kg_results)) |->
       Get(kg_results[i], "name", <<>>)]

\* Mutant of NotFound: the message does not name the query.
NotFound_NoQuery(q) ==
    <<25265, 27465, 65292, 26410, 25214, 21040, 19982, 39>>
    \o <<39, 30456, 20851, 30340, 38750, 36951, 20449, 24687, 12290>>

\* f"抱歉，未找到与'{query}'相关的非遗信息。"
NotFound(q) ==
    <<25265, 27465, 65292, 26410, 25214, 21040, 19982, 39>> \o q
    \o <<39, 30456, 20851, 30340, 38750, 36951, 20449, 24687, 12290>>

\* answer, `if not llm_func:` branch: the not-found message when both result
\* lists are empty, else the list of up to five graph rows.
answer_without_llm(q, retrieval) ==
    IF retrieval.kg_results = <<>> /\ retrieval.vector_results = <<>>
    THEN [answer |-> NotFound(q), sources |-> <<>>, retrieval |-> retrieval]
    ELSE LET answer_parts ==
               IF retrieval.kg_results # <<>>
               THEN <<FoundLine(Len(retrieval.kg_results))>> \o
                    [i \in 1..Min(ContextRows, Len(retrieval.kg_results))
                       |-> ItemLine(retrieval.kg_results[i])]
               ELSE <<>>
         IN  [answer |-> Join(NL, answer_parts),
              sources |-> SourcesOf(retrieval.kg_results),
              retrieval |-> retrieval]

\* Mutant of answer_with_llm: the except branch keeps the sources of the
\* try branch.
answer_with_llm_SourcesKept(retrieval, llm) ==
    [answer |-> IF llm.status = "returned" THEN llm.value ELSE Apology,
     sources |-> SourcesOf(retrieval.kg_results),
     retrieval |-> retrieval]

\* answer, try/except around llm_func(prompt).  llm is what the callback does
\* when called: the prompt embeds generate_context(retrieval) and the query,
\* and the callback's outcome is whatever it makes of them.
answer_with_llm(retrieval, llm) ==
    IF llm.status = "returned"
    THEN [answer |-> llm.value,
          sources |-> SourcesOf(retrieval.kg_results),
          retrieval |-> retrieval]
    ELSE [answer |-> Apology, sources |-> <<>>, retrieval |-> retrieval]

\* llm is None when no callback is given.
answer(self, q, llm, run, senv) ==
    LET r == retrieve(self, q, run, senv) IN
    IF r.status = "raised" THEN r
    ELSE IF llm = None THEN Returned(answer_without_llm(q, r.value))
    ELSE Returned(answer_with_llm(r.value, llm))

NoCall == [op |-> "none"]

\* from sentence_transformers import SentenceTransformer; import faiss
Imported == libs.sentence_transformers /\ libs.faiss

\* No call is in flight (requests are served one at a time).
Idle == last = NoCall

Init ==
    /\ kg = None
    /\ rag_engine = None
    /\ connect = "unconstructed"
    /\ last = NoCall
    /\ query = <<>>
    /\ intent = None
    /\ libs \in LibStates
    /\ retriever = None /\ reloaded = None /\ disk = None
    /\ build = None /\ builds = 0
    /\ csv = <<>> /\ output = None

\* app.py init_engines: kg is bound before ICHRAGEngine(...) can raise; the
\* handler logs whatever is raised.  Both adapters are built from the same
\* NEO4J_CONFIG, one right after the other, and meet the store in the same
\* condition.
init_engines ==
    /\ Idle
    /\ kg = None /\ rag_engine = None
    /\ \E outcome \in ConnectOutcomes, path_exists \in BOOLEAN, dir \in IndexDirs :
         LET e == ICHRAGEngine_init(outcome, Imported, path_exists, dir) IN
         /\ kg' = Neo4jKnowledgeGraph_init(outcome).value
         /\ rag_engine' = IF e.status = "returned" THEN e.value ELSE None
         /\ connect' = outcome
         /\ last' = [op |-> "init_engines", result |-> Returned(None)]
    /\ UNCHANGED <<query, intent, libs, retriever_vars,
                   batch_vars>>

\* app.py health.
health ==
    /\ Idle
    /\ last' = [op |-> "health",
                result |-> Returned(
                  [status |-> "ok",
                   knowledge_graph |-> IF kg # None /\ kg.driver # None
                                       THEN "connected" ELSE "disconnected",
                   rag_engine |-> IF rag_engine # None THEN "ready"
                                  ELSE "not_ready"])]
    /\ UNCHANGED <<kg, rag_engine, connect, query, intent, libs, retriever_vars,
                   batch_vars>>

\* The adapters that exist: app.py's kg and the engine's own.
Adapters ==
    (IF kg # None THEN {kg} ELSE {})
    \cup (IF rag_engine # None THEN {rag_engine.kg} ELSE {})

\* the empty query ; 剪纸 (a keyword) ; 云南 (a province) ; 苗族古歌 (a name)
QuerySamples ==
    { <<>>, <<21098, 32440>>, <<20113, 21335>>,
      <<33495, 26063, 21476, 27468>> }

\* 回答 ; 抱歉 (what a generation callback may return)
LlmTexts == { <<22238, 31572>>, <<25265, 27465>> }

\* No callback, a callback that raises, a callback that returns a text.
Callbacks ==
    {None} \cup {Raised("Exception")} \cup {Returned(t) : t \in LlmTexts}

Call_query_by_name ==
    /\ Idle
    /\ \E self \in Adapters, name \in QuerySamples, run \in RunOutcomes(NameKeys) :
         last' = [op |-> "query_by_name", self |-> self, arg |-> name,
                  result |-> query_by_name(self, name, run)]
    /\ UNCHANGED <<kg, rag_engine, connect, query, intent, libs, retriever_vars,
                   batch_vars>>

Call_query_by_category ==
    /\ Idle
    /\ \E self \in Adapters, category \in QuerySamples,
          run \in RunOutcomes(CategoryKeys) :
         last' = [op |-> "query_by_category", self |-> self, arg |-> category,
                  result |-> query_by_category(self, category, run)]
    /\ UNCHANGED <<kg, rag_engine, connect, query, intent, libs, retriever_vars,
                   batch_vars>>

Call_query_by_region ==
    /\ Idle
    /\ \E self \in Adapters, region \in QuerySamples,
          run \in RunOutcomes(RegionKeys) :
         last' = [op |-> "query_by_region", self |-> self, arg |-> region,
                  result |-> query_by_region(self, region, run)]
    /\ UNCHANGED <<kg, rag_engine, connect, query, intent, libs, retriever_vars,
                   batch_vars>>

Call_get_statistics ==
    /\ Idle
    /\ \E self \in Adapters, run \in StatOutcomes :
         last' = [op |-> "get_statistics", self |-> self,
                  result |-> get_statistics(self, run)]
    /\ UNCHANGED <<kg, rag_engine, connect, query, intent, libs, retriever_vars,
                   batch_vars>>

Call_get_category_distribution ==
    /\ Idle
    /\ \E self \in Adapters, run \in DistributionOutcomes :
         last' = [op |-> "get_category_distribution", self |-> self,
                  result |-> get_category_distribution(self, run)]
    /\ UNCHANGED <<kg, rag_engine, connect, query, intent, libs, retriever_vars,
                   batch_vars>>

\* The store outcomes retrieve can meet for query q.
RetrieveRuns(q) == RunOutcomes(RetrieveKeys(_extract_query_intent(q).type))

Call_retrieve ==
    /\ Idle
    /\ rag_engine # None
    /\ \E q \in QuerySamples :
       \E run \in RetrieveRuns(q), senv \in SearchEnvs(rag_engine.retriever, TopK) :
         last' = [op |-> "retrieve", arg |-> q,
                  result |-> retrieve(rag_engine, q, run, senv)]
    /\ UNCHANGED <<kg, rag_engine, connect, query, intent, libs, retriever_vars,
                   batch_vars>>

\* generate_context on the retrieval that retrieve just returned.
Call_generate_context ==
    /\ rag_engine # None
    /\ last.op = "retrieve" /\ last.result.status = "returned"
    /\ last' = [op |-> "generate_context", arg |-> last.result.value,
                result |-> Returned(generate_context(last.result.value))]
    /\ UNCHANGED <<kg, rag_engine, connect, query, intent, libs, retriever_vars,
                   batch_vars>>

Call_answer ==
    /\ Idle
    /\ rag_engine # None
    /\ \E q \in QuerySamples, llm \in Callbacks :
       \E run \in RetrieveRuns(q), senv \in SearchEnvs(rag_engine.retriever, TopK) :
         last' = [op |-> "answer", arg |-> q, llm_func |-> llm,
                  retrieved |-> retrieve(rag_engine, q, run, senv),
                  result |-> answer(rag_engine, q, llm, run, senv)]
    /\ UNCHANGED <<kg, rag_engine, connect, query, intent, libs, retriever_vars,
                   batch_vars>>

\* The caller takes the outcome of the call; the next call can start.
Return ==
    /\ ~Idle
    /\ last' = NoCall
    /\ UNCHANGED <<kg, rag_engine, connect, query, intent, libs, retriever_vars,
                   batch_vars>>

Next ==
    \/ init_engines
    \/ health
    \/ Call_query_by_name
    \/ Call_query_by_category
    \/ Call_query_by_region
    \/ Call_get_statistics
    \/ Call_get_category_distribution
    \/ Call_retrieve
    \/ Call_generate_context
    \/ Call_answer
    \/ Return

Spec == Init /\ [][Next]_vars

(***************************************************************************)
(* answer over a store that returns more records than answer lists: the    *)
(* engine is constructed, then answer is called with graph results of 0 or *)
(* of SourceRows - 1 .. MaxAnswerRows records.                             *)
(***************************************************************************)
MaxAnswerRows == 6

AnswerRuns(q) ==
    {Raised("Neo4jError")} \cup
    {Returned(Rows(n, RetrieveKeys(_extract_query_intent(q).type))) :
       n \in {0} \cup (SourceRows - 1)..MaxAnswerRows}

Call_answer_rows ==
    /\ Idle
    /\ rag_engine # None
    /\ \E q \in QuerySamples, llm \in Callbacks :
       \E run \in AnswerRuns(q), senv \in SearchEnvs(rag_engine.retriever, TopK) :
         last' = [op |-> "answer", arg |-> q, llm_func |-> llm,
                  retrieved |-> retrieve(rag_engine, q, run, senv),
                  result |-> answer(rag_engine, q, llm, run, senv)]
    /\ UNCHANGED <<kg, rag_engine, connect, query, intent, libs, retriever_vars,
                   batch_vars>>

Next_Answer ==
    \/ init_engines
    \/ Call_answer_rows
    \/ Return

SpecAnswer == Init /\ [][Next_Answer]_vars

(***************************************************************************)
(* The web layer of app.py: call_qwen_api and the route handlers that use  *)
(* the graph store.  A response is its status code and its JSON body.      *)
(***************************************************************************)
Response(status, body) == [status |-> status, body |-> body]

\* '知识图谱未连接'
NotConnected == <<30693, 35782, 22270, 35889, 26410, 36830, 25509>>

\* '请提供搜索关键词'
NoKeyword == <<35831, 25552, 20379, 25628, 32034, 20851, 38190, 35789>>

\* '请提供消息内容'
NoMessage == <<35831, 25552, 20379, 28040, 24687, 20869, 23481>>

\* "RAG引擎未初始化"
NotInitialised == <<82, 65, 71, 24341, 25806, 26410, 21021, 22987, 21270>>

\* "API密钥未配置，无法生成AI回答。请设置 QWEN_API_KEY 环境变量。"
NoApiKey ==
    <<65, 80, 73, 23494, 38053, 26410, 37197, 32622, 65292, 26080, 27861,
      29983, 25104, 65, 73, 22238, 31572, 12290, 35831, 35774, 32622, 32,
      81, 87, 69, 78, 95, 65, 80, 73, 95, 75, 69, 89, 32, 29615, 22659,
      21464, 37327, 12290>>

\* "请安装 dashscope 库: pip install dashscope"
InstallDashscope ==
    <<35831, 23433, 35013, 32, 100, 97, 115, 104, 115, 99, 111, 112, 101, 32,
      24211, 58, 32, 112, 105, 112, 32, 105, 110, 115, 116, 97, 108, 108, 32,
      100, 97, 115, 104, 115, 99, 111, 112, 101>>

\* "AI服务暂时不可用: "
UnavailablePrefix ==
    <<65, 73, 26381, 21153, 26242, 26102, 19981, 21487, 29992, 58, 32>>

\* "生成回答时出错: "
ErrorPrefix == <<29983, 25104, 22238, 31572, 26102, 20986, 38169, 58, 32>>

\* What call_qwen_api meets: whether an API key is set, whether dashscope
\* can be imported, and what Generation.call does: it raises (the network:
\* "timed out"), or it returns a response with a status code and either a
\* content or a message (401 "Invalid API-key", 429 "Throttling").
QwenEnvs ==
    {[api_key |-> FALSE, dashscope |-> TRUE, call |-> None],
     [api_key |-> TRUE, dashscope |-> FALSE, call |-> None],
     [api_key |-> TRUE, dashscope |-> TRUE,
      call |-> [status |-> "raised", exc |-> "ConnectionError",
                message |-> <<116, 105, 109, 101, 100, 32, 111, 117, 116>>]],
     [api_key |-> TRUE, dashscope |-> TRUE,
      call |-> Returned([status_code |-> 401,
                         message |-> <<73, 110, 118, 97, 108, 105, 100, 32,
                                       65, 80, 73, 45, 107, 101, 121>>])],
     [api_key |-> TRUE, dashscope |-> TRUE,
      call |-> Returned([status_code |-> 429,
                         message |-> <<84, 104, 114, 111, 116, 116, 108, 105,
                                       110, 103>>])]}
    \cup {[api_key |-> TRUE, dashscope |-> TRUE,
           call |-> Returned([status_code |-> 200, content |-> t])] :
            t \in LlmTexts}

\* app.py call_qwen_api, as the outcome of one call of it: every path
\* returns a string.
call_qwen_api(env) ==
    IF ~env.api_key THEN Returned(NoApiKey)
    ELSE IF ~env.dashscope THEN Returned(InstallDashscope)
    ELSE IF env.call.status = "raised"
    THEN Returned(ErrorPrefix \o env.call.message)
    ELSE IF env.call.value.status_code = 200
    THEN Returned(env.call.value.content)
    ELSE Returned(UnavailablePrefix \o env.call.value.message)

\* `if not kg or not kg.driver:`
NoDriver == kg = None \/ kg.driver = None

\* jsonify({'error': '知识图谱未连接'}), 503
Unavailable == Response(503, [error |-> [text |-> NotConnected]])

\* jsonify({'error': str(e)}), 500
Failed(r) == Response(500, [error |-> [exc |-> r.exc]])

\* @app.route('/api/stats')
get_stats ==
    /\ Idle
    /\ \E run \in StatOutcomes :
         last' = [op |-> "/api/stats",
                  response |->
                    IF NoDriver THEN Unavailable
                    ELSE LET stats == get_statistics(kg, run) IN
                         IF stats.status = "raised" THEN Failed(stats)
                         ELSE Response(200,
                                [total_projects |-> Get(stats.value, "total_items", 0),
                                 total_categories |-> Get(stats.value, "total_categories", 0),
                                 total_regions |-> Get(stats.value, "total_regions", 0),
                                 total_organizations |-> Get(stats.value, "total_orgs", 0)])]
    /\ UNCHANGED <<kg, rag_engine, connect, query, intent, libs, retriever_vars,
                   batch_vars>>

\* @app.route('/api/categories')
get_categories ==
    /\ Idle
    /\ \E run \in DistributionOutcomes :
         last' = [op |-> "/api/categories",
                  response |->
                    IF NoDriver THEN Unavailable
                    ELSE LET distribution == get_category_distribution(kg, run) IN
                         IF distribution.status = "raised" THEN Failed(distribution)
                         ELSE Response(200,
                                [categories |->
                                   [i \in 1..Len(distribution.value) |->
                                      [name |-> distribution.value[i].category,
                                       count |-> distribution.value[i].count]]])]
    /\ UNCHANGED <<kg, rag_engine, connect, query, intent, libs, retriever_vars,
                   batch_vars>>

\* What the Cypher queries of the graph routes do in kg.driver.session():
\* they raise, or they return n records.
GraphOutcomes == {Raised("Neo4jError")} \cup {Returned(n) : n \in 0..MaxRows}

\* graph_init past its test of kg.driver; the nodes, links and categories
\* built from the records are represented by the number of records.
GraphInit(run) ==
    IF run.status = "raised" THEN Failed(run)
    ELSE Response(200, [route |-> "init", records |-> run.value])

\* @app.route('/api/graph/init')
graph_init ==
    /\ Idle
    /\ \E run \in GraphOutcomes :
         last' = [op |-> "/api/graph/init",
                  response |-> IF NoDriver THEN Unavailable ELSE GraphInit(run)]
    /\ UNCHANGED <<kg, rag_engine, connect, query, intent, libs, retriever_vars,
                   batch_vars>>

\* @app.route('/api/graph/search'): without q it answers as graph_init.
graph_search ==
    /\ Idle
    /\ \E q \in QuerySamples, run \in GraphOutcomes :
         last' = [op |-> "/api/graph/search", q |-> q,
                  response |->
                    IF NoDriver THEN Unavailable
                    ELSE IF q = <<>> THEN GraphInit(run)
                    ELSE IF run.status = "raised" THEN Failed(run)
                    ELSE Response(200, [route |-> "search", records |-> run.value])]
    /\ UNCHANGED <<kg, rag_engine, connect, query, intent, libs, retriever_vars,
                   batch_vars>>

SearchTypes == {"name", "category", "region", "other"}

\* @app.route('/api/search')
app_search ==
    /\ Idle
    /\ \E q \in QuerySamples, search_type \in SearchTypes :
       \E run \in RunOutcomes(RetrieveKeys(search_type)) :
         last' = [op |-> "/api/search", q |-> q,
                  response |->
                    IF NoDriver THEN Unavailable
                    ELSE IF q = <<>>
                    THEN Response(400, [error |-> [text |-> NoKeyword]])
                    ELSE LET results ==
                               IF search_type = "category"
                               THEN query_by_category(kg, q, run)
                               ELSE IF search_type = "region"
                               THEN query_by_region(kg, q, run)
                               ELSE query_by_name(kg, q, run)
                         IN  IF results.status = "raised" THEN Failed(results)
                             ELSE Response(200,
                                    [query |-> q, type |-> search_type,
                                     count |-> Len(results.value),
                                     results |-> results.value])]
    /\ UNCHANGED <<kg, rag_engine, connect, query, intent, libs, retriever_vars,
                   batch_vars>>

\* @app.route('/api/project/<name>'); the route does not match an empty name.
get_project ==
    /\ Idle
    /\ \E name \in QuerySamples \ {<<>>}, run \in RunOutcomes(NameKeys) :
         last' = [op |-> "/api/project", name |-> name,
                  response |->
                    IF NoDriver THEN Unavailable
                    ELSE LET results == query_by_name(kg, name, run) IN
                         IF results.status = "raised" THEN Failed(results)
                         ELSE IF results.value # <<>>
                         THEN Response(200,
                                [found |-> TRUE, project |-> results.value[1],
                                 related |->
                                   IF Len(results.value) > 1
                                   THEN SubSeq(results.value, 2,
                                               Min(5, Len(results.value)))
                                   ELSE <<>>])
                         ELSE Response(200, [found |-> FALSE, project |-> None])]
    /\ UNCHANGED <<kg, rag_engine, connect, query, intent, libs, retriever_vars,
                   batch_vars>>

\* The JSON bodies posted to /api/chat: without 'message', or with a message
\* and use_ai absent, true or false.
ChatBodies ==
    {[other |-> TRUE]}
    \cup {[message |-> q] : q \in QuerySamples}
    \cup {[message |-> q, use_ai |-> b] : q \in QuerySamples, b \in BOOLEAN}

\* @app.route('/api/chat', methods=['POST'])
chat ==
    /\ Idle
    /\ \E data \in ChatBodies, qwen \in QwenEnvs :
       \E run \in RetrieveRuns(Get(data, "message", <<>>)),
          senv \in (IF rag_engine = None THEN {None}
                    ELSE SearchEnvs(rag_engine.retriever, TopK)) :
         last' = [op |-> "/api/chat", data |-> data, qwen |-> qwen, run |-> run,
                  response |->
                    IF "message" \notin DOMAIN data
                    THEN Response(400, [error |-> [text |-> NoMessage]])
                    ELSE LET user_message == data.message
                             use_ai == Get(data, "use_ai", TRUE)
                         IN  IF rag_engine # None
                             THEN LET result ==
                                        answer(rag_engine, user_message,
                                               IF use_ai THEN call_qwen_api(qwen)
                                               ELSE None,
                                               run, senv)
                                  IN  IF result.status = "raised" THEN Failed(result)
                                      ELSE Response(200,
                                             [answer |-> result.value.answer,
                                              sources |-> result.value.sources,
                                              intent |-> result.value.retrieval.intent])
                             ELSE Response(200,
                                    [answer |-> IF use_ai THEN call_qwen_api(qwen).value
                                                ELSE NotInitialised,
                                     sources |-> <<>>,
                                     intent |-> [type |-> "unknown",
                                                 keyword |-> user_message]])]
    /\ UNCHANGED <<kg, rag_engine, connect, query, intent, libs, retriever_vars,
                   batch_vars>>

Next_Web ==
    \/ init_engines
    \/ health
    \/ get_stats
    \/ get_categories
    \/ graph_init
    \/ graph_search
    \/ app_search
    \/ get_project
    \/ chat
    \/ Return

SpecWeb == Init /\ [][Next_Web]_vars

(***************************************************************************)
(* A VectorRetriever of its own, as build_vector_index.py makes one: it is *)
(* constructed, build_index is called on it, searches are run on it, and   *)
(* another VectorRetriever is constructed over the directory it saved to.  *)
(* build_index is a sequence of steps; a search or a load by another       *)
(* thread or process can fall between two of them.                         *)
(***************************************************************************)
MaxBuildDocs == 2

MaxTopK == 2

MaxBuilds == 2

Reverse(s) == [i \in 1..Len(s) |-> s[Len(s) + 1 - i]]

\* The document lists build_index is called with.
BuildInputs ==
    {Corpus(n) : n \in 0..MaxBuildDocs} \cup {Reverse(Corpus(MaxBuildDocs))}

\* 苗族古歌
SearchQueries == { <<33495, 26063, 21476, 27468>> }

Running == [status |-> "running"]

\* What a build_index call that ended leaves in `last`.
BuildEnded(result, documents, completed, saved) ==
    [op |-> "build_index", result |-> result, documents |-> documents,
     completed |-> completed, saved |-> saved]

\* retriever = VectorRetriever()
VectorRetriever_new ==
    /\ retriever = None
    /\ retriever' = VectorRetriever_init(Imported, FALSE, None).value
    /\ last' = [op |-> "VectorRetriever", result |-> Returned(None)]
    /\ UNCHANGED <<kg, rag_engine, connect, query, intent, libs, batch_vars,
                   reloaded, disk, build, builds>>

\* reloaded = VectorRetriever(index_path); when the constructor raises, the
\* name keeps what it was bound to.
VectorRetriever_load ==
    /\ LET r == VectorRetriever_init(Imported, disk # None, disk) IN
       /\ reloaded' = IF r.status = "returned" THEN r.value ELSE reloaded
       /\ last' = [op |-> "VectorRetriever_load",
                   result |-> IF r.status = "returned" THEN Returned(None) ELSE r,
                   round_trip |->
                     IF /\ last.op = "build_index" /\ last.result # Running
                        /\ last.completed /\ last.saved
                     THEN [documents |-> last.documents]
                     ELSE None]
    /\ UNCHANGED <<kg, rag_engine, connect, query, intent, libs, batch_vars,
                   retriever, disk, build, builds>>

\* build_index up to `self.documents = documents`: the imports, the early
\* return without a model, the assignment.
build_index_begin ==
    /\ retriever # None /\ build = None /\ builds < MaxBuilds
    /\ builds' = builds + 1
    /\ \E documents \in BuildInputs, save_path \in BOOLEAN :
         IF ~libs.faiss
         THEN /\ last' = BuildEnded(Raised("ImportError"), documents, FALSE, FALSE)
              /\ UNCHANGED <<retriever, build>>
         ELSE IF retriever.embeddings_model = None
         THEN /\ last' = BuildEnded(Returned(None), documents, FALSE, FALSE)
              /\ UNCHANGED <<retriever, build>>
         ELSE /\ retriever' = [retriever EXCEPT !.documents = documents]
              /\ build' = [pc |-> "encode", documents |-> documents,
                           save_path |-> save_path, embeddings |-> <<>>]
              /\ last' = [op |-> "build_index", result |-> Running]
    /\ UNCHANGED <<kg, rag_engine, connect, query, intent, libs, batch_vars,
                   reloaded, disk>>

\* embeddings = self.embeddings_model.encode(texts); dimension =
\* embeddings.shape[1], which an empty list of texts does not have.
build_index_encode ==
    /\ build # None /\ build.pc = "encode"
    /\ \E encode_ok \in BOOLEAN :
         IF ~encode_ok
         THEN /\ build' = None
              /\ last' = BuildEnded(Raised("RuntimeError"), build.documents,
                                    FALSE, FALSE)
         ELSE IF build.documents = <<>>
         THEN /\ build' = None
              /\ last' = BuildEnded(Raised("IndexError"), build.documents,
                                    FALSE, FALSE)
         ELSE /\ build' = [build EXCEPT !.pc = "IndexFlatIP",
                                        !.embeddings = Embed(build.documents)]
              /\ last' = [op |-> "build_index", result |-> Running]
    /\ UNCHANGED <<kg, rag_engine, connect, query, intent, libs, batch_vars,
                   retriever, reloaded, disk, builds>>

\* self.index = faiss.IndexFlatIP(dimension)
build_index_IndexFlatIP ==
    /\ build # None /\ build.pc = "IndexFlatIP"
    /\ retriever' = [retriever EXCEPT !.index = IndexFlatIP]
    /\ build' = [build EXCEPT !.pc = "add"]
    /\ last' = [op |-> "build_index", result |-> Running]
    /\ UNCHANGED <<kg, rag_engine, connect, query, intent, libs, batch_vars,
                   reloaded, disk, builds>>

\* self.index.add(embeddings); without save_path the call ends here.
build_index_add ==
    /\ build # None /\ build.pc = "add"
    /\ retriever' = [retriever EXCEPT !.index = add(@, build.embeddings)]
    /\ IF build.save_path
       THEN /\ build' = [build EXCEPT !.pc = "write_index"]
            /\ last' = [op |-> "build_index", result |-> Running]
       ELSE /\ build' = None
            /\ last' = BuildEnded(Returned(None), build.documents, TRUE, FALSE)
    /\ UNCHANGED <<kg, rag_engine, connect, query, intent, libs, batch_vars,
                   reloaded, disk, builds>>

\* os.makedirs(save_path, exist_ok=True); faiss.write_index(...)
build_index_write_index ==
    /\ build # None /\ build.pc = "write_index"
    /\ disk' = [index_file |-> TRUE,
                documents_file |-> IF disk = None THEN FALSE
                                   ELSE disk.documents_file,
                blob |-> write_index(retriever.index),
                json |-> IF disk = None THEN json_dump(<<>>) ELSE disk.json]
    /\ build' = [build EXCEPT !.pc = "dump"]
    /\ last' = [op |-> "build_index", result |-> Running]
    /\ UNCHANGED <<kg, rag_engine, connect, query, intent, libs, batch_vars,
                   retriever, reloaded, builds>>

\* json.dump(documents, f, ...) into documents.json; the call returns.
build_index_dump ==
    /\ build # None /\ build.pc = "dump"
    /\ disk' = [disk EXCEPT !.documents_file = TRUE,
                            !.json = json_dump(build.documents)]
    /\ build' = None
    /\ last' = BuildEnded(Returned(None), build.documents, TRUE, TRUE)
    /\ UNCHANGED <<kg, rag_engine, connect, query, intent, libs, batch_vars,
                   retriever, reloaded, builds>>

\* retriever.search(query, top_k)
Call_search ==
    /\ retriever # None
    /\ \E q \in SearchQueries, top_k \in 1..MaxTopK :
         \E env \in SearchEnvs(retriever, top_k) :
           last' = [op |-> "search", self |-> retriever, top_k |-> top_k,
                    result |-> search(retriever, q, top_k, env)]
    /\ UNCHANGED <<kg, rag_engine, connect, query, intent, libs, retriever_vars,
                   batch_vars>>

Next_Retriever ==
    \/ VectorRetriever_new
    \/ VectorRetriever_load
    \/ build_index_begin
    \/ build_index_encode
    \/ build_index_IndexFlatIP
    \/ build_index_add
    \/ build_index_write_index
    \/ build_index_dump
    \/ Call_search

SpecRetriever == Init /\ [][Next_Retriever]_vars

(***************************************************************************)
(* generate_ich_intro.py: batch_generate_introductions, run again and      *)
(* again over the same CSV file and the same output file.                  *)
(***************************************************************************)
MaxCsvRows == 2

\* if len(results) % 10 == 0: the periodic save
SaveEvery == 10

\* 曲艺
OtherCategory == <<26354, 33402>>

\* The rows a CSV file is made of: two projects, a second row of the first
\* project's name with another category, a row without a name.
CsvRowKinds ==
    {Item(1), [Item(1) EXCEPT !.category = OtherCategory], Item(2),
     [Item(1) EXCEPT !.name = <<>>]}

RECURSIVE SeqsUpTo(_, _)
SeqsUpTo(S, n) ==
    IF n = 0 THEN {<<>>}
    ELSE LET shorter == SeqsUpTo(S, n - 1) IN
         shorter \cup {Append(q, x) : q \in shorter, x \in S}

CsvFiles == SeqsUpTo(CsvRowKinds, MaxCsvRows)

\* 'qwen' (the type main passes), and a type that is not supported: 'glm'
ApiTypes == { <<113, 119, 101, 110>>, <<103, 108, 109>> }

\* 旧介绍 (an introduction saved by an earlier run) ; 新介绍
OldIntro == <<26087, 20171, 32461>>

NewIntro == <<26032, 20171, 32461>>

\* The dict appended to results: 项目名称, 类别, 申报地区, 保护单位,
\* 详细介绍, 生成方式 = f'AI生成 ({api_type})'.
Entry(project, intro, api_type) ==
    [name |-> Get(project, "name", <<>>),
     category |-> Get(project, "category", <<>>),
     region |-> Get(project, "region", <<>>),
     org |-> Get(project, "org", <<>>),
     intro |-> intro,
     method |-> <<65, 73, 29983, 25104, 32, 40>> \o api_type \o <<41>>]

EntryKeys == <<"name", "category", "region", "org", "intro", "method">>

\* json.dump(results, f, ...): a list of objects, each the list of its
\* members in the order of the dict.
dump_results(results) ==
    [i \in 1..Len(results) |->
       [k \in 1..Len(EntryKeys) |-> <<EntryKeys[k], results[i][EntryKeys[k]]>>]]

\* json.load(f) of such a file.
load_results(text) ==
    [i \in 1..Len(text) |->
       [key \in {m[1] : m \in Range(text[i])} |->
          (CHOOSE m \in Range(text[i]) : m[1] = key)[2]]]

\* The output file: a JSON text, or bytes that json.load cannot read.
SavedFile(results) == [json |-> dump_results(results)]

Unreadable == [garbage |-> TRUE]

\* The output files a first run can find: none, an unreadable one, or the
\* saved introductions of project 3 (which the CSV file does not list) and
\* of project 1.
InitialOutputs ==
    {None, Unreadable} \cup
    {SavedFile(r) :
       r \in {<<>>,
              <<Entry(Item(3), OldIntro, <<113, 119, 101, 110>>)>>,
              <<Entry(Item(3), OldIntro, <<113, 119, 101, 110>>),
                Entry(Item(1), OldIntro, <<113, 119, 101, 110>>)>>}}

\* `results = []`, then json.load under a bare `except: pass`.
LoadResults(file) ==
    IF file = None \/ file = Unreadable THEN <<>> ELSE load_results(file.json)

\* Mutant of ReadCsv: the names already generated are not skipped.
RECURSIVE ReadCsv_NoResume(_, _, _)
ReadCsv_NoResume(rows, seen_names, generated_names) ==
    IF rows = <<>> THEN <<>>
    ELSE LET name == Get(Head(rows), "name", <<>>) IN
         IF name # <<>> /\ name \notin seen_names
         THEN <<Head(rows)>> \o
              ReadCsv_NoResume(Tail(rows), seen_names \cup {name}, generated_names)
         ELSE ReadCsv_NoResume(Tail(rows), seen_names, generated_names)

\* The loop over csv.DictReader: a row is kept when its name is not empty,
\* was not seen in an earlier row and is not among the generated names.
RECURSIVE ReadCsv(_, _, _)
ReadCsv(rows, seen_names, generated_names) ==
    IF rows = <<>> THEN <<>>
    ELSE LET name == Get(Head(rows), "name", <<>>) IN
         IF name # <<>> /\ name \notin seen_names /\ name \notin generated_names
         THEN <<Head(rows)>> \o
              ReadCsv(Tail(rows), seen_names \cup {name}, generated_names)
         ELSE ReadCsv(Tail(rows), seen_names, generated_names)

\* What the generation API answers for a project: nothing (any failure
\* makes generate_with_* return None), an empty text, or an introduction.
GenOutcomes == {None, [text |-> <<>>], [text |-> NewIntro]}

Supported(api_type) ==
    api_type \in { <<113, 119, 101, 110>>, <<111, 112, 101, 110, 97, 105>> }

\* generate_ich_introduction: the API is called for 'qwen' and 'openai'
\* only; any other type returns None.
generate_ich_introduction(api_type, outcome) ==
    IF Supported(api_type) THEN outcome ELSE None

\* The loop over projects: results, the output file (rewritten whenever
\* results reaches a multiple of 10), and for the record the names sent to
\* the API and the names whose generation failed.
RECURSIVE Generate(_, _, _, _, _)
Generate(projects, results, file, api_type, outcomes) ==
    IF projects = <<>>
    THEN [results |-> results, file |-> file, sent |-> <<>>, failed |-> {}]
    ELSE LET project == Head(projects)
             name == Get(project, "name", <<>>)
             intro == generate_ich_introduction(api_type, outcomes[name])
             ok == intro # None /\ intro.text # <<>>
             results1 == IF ok
                         THEN Append(results, Entry(project, intro.text, api_type))
                         ELSE results
             file1 == IF ok /\ Len(results1) % SaveEvery = 0
                      THEN SavedFile(results1) ELSE file
             rest == Generate(Tail(projects), results1, file1, api_type, outcomes)
         IN  [rest EXCEPT
                !.sent = (IF Supported(api_type) THEN <<name>> ELSE <<>>) \o @,
                !.failed = IF ok THEN @ ELSE @ \cup {name}]

\* limit: absent, 0, 1, or the 5 that main passes
Limits == {None} \cup {[limit |-> n] : n \in {0, 1, 5}}

\* `if limit: projects = projects[:limit]`
Limited(projects, limit) ==
    IF limit = None \/ limit.limit = 0 THEN projects
    ELSE Take(projects, limit.limit)

CsvNames == {r.name : r \in CsvRowKinds} \ {<<>>}

Init_Batch ==
    /\ kg = None /\ rag_engine = None /\ connect = "unconstructed"
    /\ last = NoCall
    /\ query = <<>> /\ intent = None
    /\ libs = [sentence_transformers |-> TRUE, faiss |-> TRUE]
    /\ retriever = None /\ reloaded = None /\ disk = None
    /\ build = None /\ builds = 0
    /\ csv \in CsvFiles
    /\ output \in InitialOutputs

\* One run of batch_generate_introductions(csv_path, output_path, ...).
batch_generate_introductions ==
    /\ \E api_type \in ApiTypes, limit \in Limits,
          outcomes \in [CsvNames -> GenOutcomes] :
         LET results == LoadResults(output)
             generated_names == {Get(results[i], "name", <<>>) : i \in 1..Len(results)}
             projects == Limited(ReadCsv(csv, {}, generated_names), limit)
             run == Generate(projects, results, output, api_type, outcomes)
         IN  /\ output' = SavedFile(run.results)
             /\ last' = [op |-> "batch_generate_introductions",
                         first |-> IF last.op = "batch_generate_introductions"
                                   THEN last.first ELSE output,
                         before |-> output,
                         sent |-> run.sent, failed |-> run.failed]
    /\ UNCHANGED <<kg, rag_engine, connect, query, intent, libs, retriever_vars, csv>>

Next_Batch == batch_generate_introductions

SpecBatch == Init_Batch /\ [][Next_Batch]_vars

(***************************************************************************)
(* Queries for the classifier: every concatenation of parts (a category    *)
(* name, a keyword, a province, or a word that is none of these) that is   *)
(* at most MaxQueryLen characters long.                                    *)
(***************************************************************************)
MaxQueryLen == 4

CategoryNames == {category_keywords[i].category : i \in 1..Len(category_keywords)}

AllKeywords ==
    UNION {Range(category_keywords[i].keywords) : i \in 1..Len(category_keywords)}

\* 的 ; 苗族古歌 (the name queried by the module's self-test)
OtherWords == { <<30340>>, <<33495, 26063, 21476, 27468>> }

QueryParts == CategoryNames \cup AllKeywords \cup Range(provinces) \cup OtherWords

RECURSIVE QueriesUpTo(_)
QueriesUpTo(n) ==
    {<<>>} \cup UNION {{p \o q : q \in QueriesUpTo(n - Len(p))} :
                         p \in {x \in QueryParts : Len(x) <= n}}

Queries == QueriesUpTo(MaxQueryLen)

Init_Intent ==
    /\ kg = None
    /\ \E o \in {"ok", "driver_failed"} :
         rag_engine = ICHRAGEngine_init(o, TRUE, FALSE, None).value
    /\ connect = "unconstructed"
    /\ last = NoCall
    /\ query \in Queries
    /\ intent = None
    /\ libs = [sentence_transformers |-> TRUE, faiss |-> TRUE]
    /\ retriever = None /\ reloaded = None /\ disk = None
    /\ build = None /\ builds = 0
    /\ csv = <<>> /\ output = None

\* A call rag_engine._extract_query_intent(query).
extract_query_intent ==
    /\ intent = None
    /\ intent' = _extract_query_intent(query)
    /\ last' = [op |-> "_extract_query_intent", result |-> Returned(intent')]
    /\ UNCHANGED <<kg, rag_engine, connect, query, libs, retriever_vars,
                   batch_vars>>

Next_Intent == extract_query_intent

SpecIntent == Init_Intent /\ [][Next_Intent]_vars

(***************************************************************************)
(* Properties of the intent classifier, checked under SpecIntent.          *)
(***************************************************************************)
\* Category i of the table is mentioned by q: its name or one of its keywords
\* occurs in q.
Mentions(i, q) ==
    \/ Contains(category_keywords[i].category, q)
    \/ \E w \in Range(category_keywords[i].keywords) : Contains(w, q)

MentionsCategory(q) == \E i \in 1..Len(category_keywords) : Mentions(i, q)

MentionsProvince(q) == \E p \in 1..Len(provinces) : Contains(provinces[p], q)

Classified == intent # None

\* C1 as stated: for every category whose name or keyword occurs in the
\* query, the intent is 'category' with that very category as keyword.
C1_EveryMentionedCategory ==
    Classified =>
      \A i \in 1..Len(category_keywords) :
        Mentions(i, query) =>
          intent = [type |-> "category",
                    keyword |-> category_keywords[i].category]

\* C1 amended: for every category whose name or keyword occurs in the query,
\* the intent is 'category' and its keyword is a category mentioned by the
\* query that stands no later in the table; so it is that very category
\* whenever no earlier category is mentioned too.
C1_MentionedCategory ==
    Classified =>
      \A i \in 1..Len(category_keywords) :
        Mentions(i, query) =>
          /\ intent.type = "category"
          /\ \E j \in 1..i :
               /\ Mentions(j, query)
               /\ intent.keyword = category_keywords[j].category

\* A query that mentions a category by keyword only, not the first of the
\* table, has been classified as that category.
C1_Witness ==
    /\ Classified
    /\ \E i \in 2..Len(category_keywords) :
         /\ Mentions(i, query)
         /\ ~Contains(category_keywords[i].category, query)
         /\ intent = [type |-> "category",
                      keyword |-> category_keywords[i].category]

\* C2: a query that mentions a category and contains a province name is
\* classified by category, never by region.
C2_CategoryBeforeRegion ==
    (Classified /\ MentionsCategory(query) /\ MentionsProvince(query)) =>
      intent.type = "category"

C2_Witness ==
    /\ Classified /\ MentionsCategory(query) /\ MentionsProvince(query)
    /\ intent.type = "category"

\* C3: a query that mentions no category but contains a province name is
\* classified 'region', with the first province of the list that occurs in
\* the query as keyword.
C3_RegionFirstProvince ==
    (Classified /\ ~MentionsCategory(query) /\ MentionsProvince(query)) =>
      /\ intent.type = "region"
      /\ Contains(intent.keyword, query)
      /\ \E p \in 1..Len(provinces) :
           /\ intent.keyword = provinces[p]
           /\ \A e \in 1..(p - 1) : ~Contains(provinces[e], query)

\* Two provinces occur in the query, and the later one of the list was not
\* chosen.
C3_Witness ==
    /\ Classified /\ intent.type = "region"
    /\ \E p \in 1..Len(provinces) :
         /\ intent.keyword # provinces[p]
         /\ Contains(provinces[p], query)

\* C4: the call returns for every query, the empty one included, one intent
\* of type 'category', 'region' or 'name', leaves the engine as it was, and
\* for a query that mentions no category and no province the intent is
\* 'name' with the raw query as keyword.
C4_TotalAndPure ==
    [][extract_query_intent =>
         /\ last'.result = Returned(intent')
         /\ DOMAIN intent' = {"type", "keyword"}
         /\ intent'.type \in {"category", "region", "name"}
         /\ (~MentionsCategory(query) /\ ~MentionsProvince(query)) =>
              intent' = [type |-> "name", keyword |-> query]
         /\ rag_engine' = rag_engine /\ kg' = kg /\ query' = query]_vars

C4_Witness ==
    /\ Classified /\ query # <<>>
    /\ ~MentionsCategory(query) /\ ~MentionsProvince(query)
    /\ intent = [type |-> "name", keyword |-> query]

(***************************************************************************)
(* Properties of the adapter and the engine, checked under Spec.           *)
(***************************************************************************)
AdapterOps ==
    {"query_by_name", "query_by_category", "query_by_region",
     "get_statistics", "get_category_distribution"}

\* C5: an adapter operation called on a disconnected adapter (driver None)
\* fails with ServiceUnavailable.
C5_DisconnectedIsServiceUnavailable ==
    (last.op \in AdapterOps /\ last.self.driver = None) =>
      last.result = Raised("ServiceUnavailable")

\* C6: when the driver could not be created or the test query failed at
\* construction, the adapter's driver is None and /api/health reports the
\* knowledge graph as disconnected.
C6_FailedConstructionIsObservable ==
    /\ (kg # None /\ connect # "ok") => kg.driver = None
    /\ (last.op = "health" /\ connect \in {"driver_failed", "test_failed"})
         => last.result.value.knowledge_graph = "disconnected"

\* C7: answer returns a result with 'answer' and 'sources' whatever the
\* collaborators do; nothing is raised to its caller.
C7_AnswerNeverRaises ==
    last.op = "answer" =>
      /\ last.result.status = "returned"
      /\ {"answer", "sources"} \subseteq DOMAIN last.result.value

\* "抱歉，生成回答时出现错误。"
ApologyText ==
    <<25265, 27465, 65292, 29983, 25104, 22238, 31572, 26102, 20986, 29616,
      38169, 35823, 12290>>

\* C8: when retrieval succeeded, a callback that raises yields the apology
\* with empty sources and nothing is raised; a callback that returns yields
\* its text as the answer.
C8_CallbackOutcome ==
    (last.op = "answer" /\ last.llm_func # None
       /\ last.retrieved.status = "returned") =>
      /\ last.result.status = "returned"
      /\ last.llm_func.status = "raised" =>
           /\ last.result.value.answer = ApologyText
           /\ last.result.value.sources = <<>>
      /\ last.llm_func.status = "returned" =>
           last.result.value.answer = last.llm_func.value

\* The callback raised after a retrieval that found graph rows and documents.
C8_Witness ==
    /\ last.op = "answer" /\ last.llm_func = Raised("Exception")
    /\ last.retrieved.status = "returned"
    /\ last.retrieved.value.kg_results # <<>>
    /\ last.retrieved.value.vector_results # <<>>
    /\ last.result.status = "returned"
    /\ last.result.value.answer = ApologyText

\* C9: without a callback, empty graph results and empty vector results
\* yield 抱歉，未找到与'<query>'相关的非遗信息。 and empty sources.
C9_NotFound ==
    (last.op = "answer" /\ last.llm_func = None
       /\ last.retrieved.status = "returned"
       /\ last.retrieved.value.kg_results = <<>>
       /\ last.retrieved.value.vector_results = <<>>) =>
      /\ last.result.status = "returned"
      /\ last.result.value.answer =
           <<25265, 27465, 65292, 26410, 25214, 21040, 19982, 39>> \o last.arg
           \o <<39, 30456, 20851, 30340, 38750, 36951, 20449, 24687, 12290>>
      /\ last.result.value.sources = <<>>

\* The not-found answer was given for a query that is not empty.
C9_Witness ==
    /\ last.op = "answer" /\ last.llm_func = None /\ last.arg # <<>>
    /\ last.retrieved.status = "returned"
    /\ last.retrieved.value.kg_results = <<>>
    /\ last.retrieved.value.vector_results = <<>>
    /\ last.result.status = "returned"
    /\ Contains(last.arg, last.result.value.answer)

\* "相关文档" ; "知识图谱信息"
DocsTitle == <<30456, 20851, 25991, 26723>>

KgTitle == <<30693, 35782, 22270, 35889, 20449, 24687>>

\* C10: the context has no 相关文档 section when every vector result has a
\* similarity of at most 0.5 (scores in hundredths, -1.00 to 0.50), and no
\* 知识图谱信息 section when there are no graph rows.
C10_EmptySectionsOmitted ==
    last.op = "generate_context" =>
      /\ (\A i \in 1..Len(last.arg.vector_results) :
            last.arg.vector_results[i].score \in -100..50)
           => ~Contains(DocsTitle, last.result.value)
      /\ last.arg.kg_results = <<>> => ~Contains(KgTitle, last.result.value)

\* C18: among the categories a query mentions (by name or by keyword), the
\* classifier returns the one that stands first in the table.
C18_FirstMatchInTableOrder ==
    (Classified /\ MentionsCategory(query)) =>
      \E i \in 1..Len(category_keywords) :
        /\ Mentions(i, query)
        /\ \A j \in 1..(i - 1) : ~Mentions(j, query)
        /\ intent = [type |-> "category",
                     keyword |-> category_keywords[i].category]

\* A query that mentions two categories has been classified as the one that
\* stands earlier in the table.
C18_Witness ==
    /\ Classified
    /\ \E i, j \in 1..Len(category_keywords) :
         /\ i < j
         /\ Mentions(i, query) /\ Mentions(j, query)
         /\ \A k \in 1..(i - 1) : ~Mentions(k, query)
         /\ intent.keyword = category_keywords[i].category

(***************************************************************************)
(* Properties of the VectorRetriever, checked under SpecRetriever (C13     *)
(* under Spec, where the engine loads the directory it finds).             *)
(***************************************************************************)
\* The document list and the index of retriever r are a matched pair:
\* document i is the text whose vector has positional id i - 1, and both
\* have the same length (no index: no documents).
Matched(r) ==
    IF r.index = None THEN r.documents = <<>>
    ELSE /\ r.index.ntotal = Len(r.documents)
         /\ r.index.vectors = Embed(r.documents)

\* C11: a search over a matched index of N >= 1 documents that returns,
\* returns at most top_k pairs, sorted by descending score, no document
\* twice, every score within [-1, 1] (scores are in hundredths).
C11_SearchResult ==
    (/\ last.op = "search" /\ last.result.status = "returned"
     /\ last.self.index # None /\ Matched(last.self)
     /\ Len(last.self.documents) >= 1) =>
      LET r == last.result.value IN
      /\ Len(r) <= last.top_k
      /\ \A i, j \in 1..Len(r) : i < j => r[i].score >= r[j].score
      /\ \A i, j \in 1..Len(r) : i # j => r[i].doc # r[j].doc
      /\ \A i \in 1..Len(r) : r[i].score \in -100..100

\* C12: a search on a retriever whose index is absent or whose libraries
\* failed to import at construction returns the empty list and raises
\* nothing.
C12_NotReadyIsEmpty ==
    (/\ last.op = "search"
     /\ (last.self.index = None \/ last.self.embeddings_model = None)) =>
      last.result = Returned(<<>>)

\* C13: an engine whose retriever holds a loaded index holds the matching
\* document list with it: a load of a directory whose two files are not a
\* matched pair did not succeed.
C13_LoadedIsMatched ==
    (rag_engine # None /\ rag_engine.retriever.index # None) =>
      Matched(rag_engine.retriever)

\* C14: a VectorRetriever constructed over save_path right after
\* build_index(documents, save_path) ran to its end holds the N documents in
\* build order and the index of the built retriever, and every search gives
\* on it what it gives on the built retriever.
C14_RoundTrip ==
    (last.op = "VectorRetriever_load" /\ last.round_trip # None) =>
      /\ last.result.status = "returned"
      /\ reloaded # None
      /\ reloaded.documents = last.round_trip.documents
      /\ reloaded.index = retriever.index
      /\ \A q \in SearchQueries, top_k \in 1..(MaxTopK + 1) :
           \A env \in SearchEnvs(retriever, top_k) :
             search(reloaded, q, top_k, env) = search(retriever, q, top_k, env)

\* A retriever was loaded right after a build of MaxBuildDocs documents in
\* an order of their own was saved, and holds them in that order.
C14_Witness ==
    /\ last.op = "VectorRetriever_load" /\ last.round_trip # None
    /\ last.round_trip.documents = Reverse(Corpus(MaxBuildDocs))
    /\ reloaded # None
    /\ reloaded.documents = Reverse(Corpus(MaxBuildDocs))
    /\ Len(retriever.documents) = MaxBuildDocs

\* C19: in every state of a VectorRetriever, the built one and the loaded
\* one, the document list and the index are a matched pair.
C19_MatchedPair ==
    /\ retriever # None => Matched(retriever)
    /\ reloaded # None => Matched(reloaded)

(***************************************************************************)
(* Properties of answer's sources, checked under SpecAnswer.               *)
(***************************************************************************)
\* C15: when answer returns without a callback or with a callback that
\* returned, its sources are the names of the first min(5, n) of the n graph
\* records, in the order the store returned them (and so hold no title of a
\* vector result).
C15_SourcesFromGraph ==
    (/\ last.op = "answer" /\ last.result.status = "returned"
     /\ (last.llm_func = None \/ last.llm_func.status = "returned")) =>
      LET rows == last.retrieved.value.kg_results
          sources == last.result.value.sources
      IN  /\ Len(sources) = Min(5, Len(rows))
          /\ \A i \in 1..Len(sources) : sources[i] = rows[i].name
          /\ \A i \in 1..Len(sources) :
               \A v \in Range(last.retrieved.value.vector_results) :
                 sources[i] # v.doc.title

\* answer returned along the callback path over more than 5 graph records
\* and some vector results, with 5 sources.
C15_Witness ==
    /\ last.op = "answer" /\ last.result.status = "returned"
    /\ last.llm_func # None /\ last.llm_func.status = "returned"
    /\ Len(last.retrieved.value.kg_results) > 5
    /\ last.retrieved.value.vector_results # <<>>
    /\ Len(last.result.value.sources) = 5
    /\ last.result.value.sources[5] = Item(5).name

(***************************************************************************)
(* Properties of the web layer, checked under SpecWeb.                     *)
(***************************************************************************)
\* The request in `last` reached a graph store operation, or was turned
\* away by the handler's test of the driver, and the adapter it uses holds
\* no driver.
DisconnectedRequest ==
    \/ /\ last.op \in {"/api/stats", "/api/categories", "/api/search",
                       "/api/project", "/api/graph/init", "/api/graph/search"}
       /\ NoDriver
    \/ /\ last.op = "/api/chat" /\ "message" \in DOMAIN last.data
       /\ rag_engine # None /\ rag_engine.kg.driver = None

\* C16: a request to a handler that invokes a graph store operation, made
\* while the adapter it uses is disconnected, is answered with 503.
C16_DisconnectedIs503 ==
    DisconnectedRequest => last.response.status = 503

\* Generation.call failed: it raised, or its response is not a 200.
GenerationFailed(env) ==
    /\ env.api_key /\ env.dashscope
    /\ \/ env.call.status = "raised"
       \/ env.call.value.status_code # 200

\* C17: an AI chat request whose retrieval succeeded and whose generation
\* failed is answered with the fixed apology and an empty sources list.
C17_GenerationFailureIsApology ==
    (/\ last.op = "/api/chat" /\ "message" \in DOMAIN last.data
     /\ Get(last.data, "use_ai", TRUE)
     /\ rag_engine # None
     /\ GenerationFailed(last.qwen)
     /\ last.response.status = 200) =>
      /\ last.response.body.answer = ApologyText
      /\ last.response.body.sources = <<>>

(***************************************************************************)
(* Properties of batch_generate_introductions, checked under SpecBatch.    *)
(***************************************************************************)
NamesOf(entries) == [i \in 1..Len(entries) |-> entries[i].name]

Distinct(seq) == \A i, j \in 1..Len(seq) : i # j => seq[i] # seq[j]

IsPrefix(a, b) == Len(a) <= Len(b) /\ SubSeq(b, 1, Len(a)) = a

\* C20: starting from an output file that is absent or holds entries with
\* distinct project names, after every run the file holds each project name
\* at most once, the entries of the first file and of the file before the
\* run are still there, unchanged and in their positions, no entry exists
\* for a project whose generation failed in the run, and no project that
\* the file held before the run was sent to the API (nor one twice).
C20_Resumable ==
    (/\ last.op = "batch_generate_introductions"
     /\ last.first # Unreadable
     /\ Distinct(NamesOf(LoadResults(last.first)))) =>
      LET now == LoadResults(output)
          before == LoadResults(last.before)
      IN  /\ output # None /\ output # Unreadable
          /\ Distinct(NamesOf(now))
          /\ IsPrefix(LoadResults(last.first), now)
          /\ IsPrefix(before, now)
          /\ \A n \in last.failed : n \notin Range(NamesOf(now))
          /\ \A i \in 1..Len(last.sent) : last.sent[i] \notin Range(NamesOf(before))
          /\ Distinct(last.sent)

\* A second run added an entry to a file that held a saved entry at first
\* and to which the first run had added one, so that the CSV file lists a
\* project the file held before the second run.
C20_Witness ==
    /\ last.op = "batch_generate_introductions"
    /\ last.first # None /\ last.first # Unreadable
    /\ Len(LoadResults(last.first)) >= 1
    /\ Len(LoadResults(last.before)) > Len(LoadResults(last.first))
    /\ Len(LoadResults(output)) > Len(LoadResults(last.before))
    /\ \E i \in 1..Len(csv) : csv[i].name \in Range(NamesOf(LoadResults(last.before)))

====
